---- MODULE Spec2Model ----
(***************************************************************************)
(* The configuration lifecycle of the demo plugin: a pointer to an         *)
(* immutable configuration instance, guarded by a sync.RWMutex, replaced   *)
(* by clone-and-publish from OnConfigurationChange and setEnabled, and     *)
(* read by every other hook through getConfiguration.                      *)
(*                                                                         *)
(* Objects live in two heaps: heap (configuration instances, by id) and    *)
(* maps (the demoChannelIDs maps, by id), so that sharing a map between    *)
(* two instances is expressible.  Each worker runs one hook at a time,     *)
(* one statement or host call per step.                                    *)
(***************************************************************************)
EXTENDS Integers, Sequences, FiniteSets, TLC

\* ------------------------------------------------------------------ bounds
\* Writer hooks (OnConfigurationChange, setEnabled, direct setConfiguration
\* calls) that may be started in one behaviour.
MaxWrites == 2

\* Instances a caller of the configuration API keeps references to at a time.
MaxHeld == 2

\* The workers on which the host runs hooks concurrently.
Procs == {"w1", "w2"}

\* Teams the host may report, in the order GetTeams lists them.
TeamList == <<"t1", "t2">>
Teams == {TeamList[i] : i \in 1..Len(TeamList)}

\* ------------------------------------------------------------ data model
Nil == 0
None == "none"

\* Instance ids: every writer hook keeps at most one instance alive for good
\* (the one it publishes); every worker holds at most two unpublished
\* temporaries at a time.
MaxInst == MaxWrites + 2 * Cardinality(Procs) + (MaxHeld - 2)
Ids == 1..MaxInst

\* Map ids: the map Clone makes for instance i is i, the map
\* ensureDemoChannels makes for instance i is MaxInst + i, the map of a
\* struct literal for instance i is 2 * MaxInst + i; 0 is the nil map.
NilMap == 0
MapIds == 1..(3 * MaxInst)
CloneMapId(i) == i
EnsureMapId(i) == MaxInst + i
LiteralMapId(i) == 2 * MaxInst + i

EmptyMap == [t \in {} |-> <<>>]

\* The fields LoadPluginConfiguration can set (the exported ones).
PublicFields == {"Username", "ChannelName", "LastName", "TextStyle",
                 "RandomSecret", "SecretMessage", "EnableMentionUser",
                 "MentionUser", "SecretNumber", "IntegrationRequestDelay"}

\* &configuration{}: every field at its zero value, the map nil.
ZeroConfiguration ==
    [Username |-> "", ChannelName |-> "", LastName |-> "", TextStyle |-> "",
     RandomSecret |-> "", SecretMessage |-> "", EnableMentionUser |-> FALSE,
     MentionUser |-> "", SecretNumber |-> 0, IntegrationRequestDelay |-> 0,
     disabled |-> FALSE, demoUserID |-> "", demoChannelIDs |-> NilMap]

\* Plugin settings the host may hold (System Console values).  A settings
\* object need not name every field.
SettingsA ==
    [Username |-> "demo", ChannelName |-> "demo", LastName |-> "User",
     TextStyle |-> "", RandomSecret |-> "s1", SecretMessage |-> "hi",
     EnableMentionUser |-> FALSE, MentionUser |-> "", SecretNumber |-> 0,
     IntegrationRequestDelay |-> 0]
SettingsB ==
    [Username |-> "demo", ChannelName |-> "demo", LastName |-> "Day",
     TextStyle |-> "_", RandomSecret |-> "s2", SecretMessage |-> "hi",
     EnableMentionUser |-> TRUE, MentionUser |-> "bob", SecretNumber |-> 7,
     IntegrationRequestDelay |-> 0]
SettingsInvalid == [Username |-> "invalid"]

Settings(name) ==
    CASE name = "A" -> SettingsA
      [] name = "B" -> SettingsB
      [] OTHER -> SettingsInvalid
\* What the host holds when OnConfigurationChange loads, and what an
\* administrator may be about to save.
LoadableSettings == {"A", "B"}
SavableSettings == {"A", "Invalid", "null"}

\* ----------------------------------------------------------------- state
VARIABLES
    heap,           \* configuration instances: id -> field values
    maps,           \* demoChannelIDs maps: map id -> (team -> channel id)
    configuration,  \* p.configuration: the published instance, or Nil
    botID,          \* p.botID
    rlock,          \* workers holding configurationLock for reading
    wlock,          \* the worker holding configurationLock for writing
    wwait,          \* the writer that announced itself and waits for readers
    loc,            \* per worker: position, call stack and local variables
    teams,          \* host: existing teams
    users,          \* host: username -> last name of the existing users
    channels,       \* host: existing channels, as <<team, name>>
    everPublished,  \* history: instances ever stored in p.configuration
    pubValue,       \* history: the value of each instance when published
    rawAccess,      \* history: p.configuration was accessed without the lock
    panicked        \* the plugin process died from a panic

lockVars == <<rlock, wlock, wwait>>
hostVars == <<teams, users, channels>>
histVars == <<everPublished, pubValue, rawAccess>>
vars == <<heap, maps, configuration, botID, rlock, wlock, wwait, loc,
          teams, users, channels, everPublished, pubValue,
          rawAccess, panicked>>

\* The locals of a worker that runs no hook.
IdleLoc ==
    [pc |-> "idle", hook |-> "none", stack |-> <<>>, arg |-> "",
     snap |-> Nil, cfg |-> Nil, newc |-> Nil, setarg |-> Nil, held |-> {},
     tl |-> <<>>, idx |-> 1, chm |-> EmptyMap, user |-> "",
     ulast |-> "", enabled |-> FALSE, keys |-> {}, team |-> "",
     msg |-> "", perr |-> FALSE, old |-> Nil, diff |-> EmptyMap, posts |-> <<>>,
     created |-> {}, seen |-> {}, gotTeams |-> FALSE, sets |-> 0,
     emitted |-> <<>>, failed |-> FALSE, failedTeam |-> "", conf0 |-> Nil,
     pairs |-> {}, lookup |-> "", nochan |-> {}, lost |-> {}, gets |-> 0,
     apierr |-> FALSE, uploads |-> <<>>, fields |-> <<>>, opened |-> 0,
     res |-> ""]

\* ------------------------------------------------------------- the heaps
MapOf(ms, ref) == IF ref = NilMap THEN EmptyMap ELSE ms[ref]

\* An instance with its map's entries: what a reader of the instance sees.
Flat(h, ms, i) == [c |-> h[i], m |-> MapOf(ms, h[i].demoChannelIDs)]

Refs(l) == ({l.snap, l.cfg, l.newc, l.setarg, l.old} \cup l.held) \ {Nil}

\* Instances reachable from the plugin or from a worker.
Live(conf, lc) == ({conf} \ {Nil}) \cup UNION {Refs(lc[p]) : p \in Procs}

\* A new object never gets the identity of a reachable one, nor (so that the
\* history can tell instances apart) of one that was ever published.
FreeIds == Ids \ (Live(configuration, loc) \cup everPublished)

\* The instance a new allocation gets.
NewId == CHOOSE i \in FreeIds : \A j \in FreeIds : i <= j

\* Garbage collection: unreachable objects are reset.
Collect(h, live) == [i \in Ids |-> IF i \in live THEN h[i] ELSE ZeroConfiguration]
CollectMaps(ms, h, live) ==
    [m \in MapIds |->
        IF \E i \in live : h[i].demoChannelIDs = m THEN ms[m] ELSE EmptyMap]
ZeroFlat == [c |-> ZeroConfiguration, m |-> EmptyMap]
CollectValues(pv, live) == [i \in Ids |-> IF i \in live THEN pv[i] ELSE ZeroFlat]

\* ------------------------------------------------------------------ Clone
\* make(map[string]string) and the copy loop.
DropsEntries(m) == [k \in {} |-> m[k]]
CopyEntries(m) == [k \in DOMAIN m |-> m[k]]

\* The map reference the clone gets: the fresh map.
SharedMapRef(c, fresh) == c.demoChannelIDs
CloneMapRef(c, fresh) == fresh

\* The struct literal Clone returns.  (A literal without the disabled field
\* would leave it at its zero value.)
CloneResetsDisabled(c, fresh) ==
    [Username |-> c.Username,
     ChannelName |-> c.ChannelName,
     LastName |-> c.LastName,
     TextStyle |-> c.TextStyle,
     RandomSecret |-> c.RandomSecret,
     SecretMessage |-> c.SecretMessage,
     EnableMentionUser |-> c.EnableMentionUser,
     MentionUser |-> c.MentionUser,
     SecretNumber |-> c.SecretNumber,
     IntegrationRequestDelay |-> c.IntegrationRequestDelay,
     disabled |-> FALSE,
     demoUserID |-> c.demoUserID,
     demoChannelIDs |-> fresh]
CloneFields(c, fresh) ==
    [Username |-> c.Username,
     ChannelName |-> c.ChannelName,
     LastName |-> c.LastName,
     TextStyle |-> c.TextStyle,
     RandomSecret |-> c.RandomSecret,
     SecretMessage |-> c.SecretMessage,
     EnableMentionUser |-> c.EnableMentionUser,
     MentionUser |-> c.MentionUser,
     SecretNumber |-> c.SecretNumber,
     IntegrationRequestDelay |-> c.IntegrationRequestDelay,
     disabled |-> c.disabled,
     demoUserID |-> c.demoUserID,
     demoChannelIDs |-> CloneMapRef(c, fresh)]

\* Clone of instance src into the new instance dst: the heaps afterwards.
CloneHeap(h, src, dst) == [h EXCEPT ![dst] = CloneFields(h[src], CloneMapId(dst))]
CloneMaps(ms, h, src, dst) ==
    [ms EXCEPT ![CloneMapId(dst)] = CopyEntries(MapOf(ms, h[src].demoChannelIDs))]

\* ------------------------------------------------------- calls and returns
Call(l, target, ret) == [l EXCEPT !.pc = target, !.stack = <<ret>> \o l.stack]
Return(l) == [l EXCEPT !.pc = Head(l.stack), !.stack = Tail(l.stack)]
\* A worker is at a label only while the process lives.
At(p, label) == ~panicked /\ loc[p].pc = label
Holds(p) == p \in rlock \/ wlock = p

\* ---------------------------------------------------------- getConfiguration
\* p.configurationLock.RLock(): blocked while a writer holds or awaits the lock.
\* (A reader-preferring lock would let readers in past a waiting writer.)
IgnoresWaitingWriter(p) == wlock = None
RLockFree(p) == wlock = None /\ wwait = None

\* The lock getConfiguration holds when it reads the pointer.
ReadLocked(rs, p) == rs \cup {p}

\* What getConfiguration stores in the pointer when it finds it nil: nothing.
StoreZero(conf, fresh) == fresh
KeepPointer(conf, fresh) == conf

\* RLock(); if p.configuration == nil { return &configuration{} };
\* return p.configuration.  The result waits in snap for the deferred RUnlock.
GetConfigurationRead(p) ==
    /\ At(p, "gc_rlock")
    /\ RLockFree(p)
    /\ rlock' = ReadLocked(rlock, p)
    /\ rawAccess' = (rawAccess \/ p \notin rlock')
    /\ IF configuration = Nil
       THEN /\ heap' = [heap EXCEPT ![NewId] = ZeroConfiguration]
            /\ loc' = [loc EXCEPT ![p].snap = NewId, ![p].pc = "gc_runlock",
                                  ![p].gets = loc[p].gets + 1]
            /\ configuration' = KeepPointer(configuration, NewId)
       ELSE /\ loc' = [loc EXCEPT ![p].snap = configuration,
                                  ![p].pc = "gc_runlock",
                                  ![p].gets = loc[p].gets + 1]
            /\ UNCHANGED <<heap, configuration>>
    /\ UNCHANGED <<maps, botID, wlock, wwait, hostVars, everPublished, pubValue,
                   panicked>>

\* The deferred RUnlock gives the read lock back.
KeepsReadLock(rs, p) == rs
ReleaseRead(rs, p) == rs \ {p}

\* defer p.configurationLock.RUnlock(), and the return to the caller.
GetConfigurationReturn(p) ==
    /\ At(p, "gc_runlock")
    /\ rlock' = ReleaseRead(rlock, p)
    /\ loc' = [loc EXCEPT ![p] = Return(loc[p])]
    /\ UNCHANGED <<heap, maps, configuration, botID, wlock, wwait, hostVars,
                   histVars, panicked>>

\* ---------------------------------------------------------- setConfiguration
\* p.configurationLock.Lock(), first half: the writer takes the writers'
\* mutex and announces itself, which holds back new readers.
SetConfigurationLock(p) ==
    /\ At(p, "sc_lock")
    /\ wlock = None /\ wwait = None
    /\ wwait' = p
    /\ loc' = [loc EXCEPT ![p].pc = "sc_swap"]
    /\ UNCHANGED <<heap, maps, configuration, botID, rlock, wlock, hostVars,
                   histVars, panicked>>

\* if configuration != nil && p.configuration == configuration { panic(...) }
NeverPanics(conf, c) == FALSE
SetPanics(conf, c) == c # Nil /\ conf = c

\* The readers the writer waits for before it proceeds: all of them.
ReadersGone(rs) == rs = {}

\* Lock(), second half: the writer proceeds once the active readers left;
\* if ... { panic }; p.configuration = configuration
SetConfigurationSwap(p) ==
    /\ At(p, "sc_swap")
    /\ wwait = p /\ ReadersGone(rlock)
    /\ wlock' = p /\ wwait' = None
    /\ rawAccess' = (rawAccess \/ wlock' # p)
    /\ IF SetPanics(configuration, loc[p].setarg)
       THEN /\ loc' = [loc EXCEPT ![p].pc = "sc_panic"]
            /\ UNCHANGED <<configuration, everPublished, pubValue>>
       ELSE /\ configuration' = loc[p].setarg
            /\ everPublished' = everPublished \cup ({loc[p].setarg} \ {Nil})
            /\ pubValue' = IF loc[p].setarg = Nil THEN pubValue
                           ELSE [pubValue EXCEPT ![loc[p].setarg] =
                                    Flat(heap, maps, loc[p].setarg)]
            /\ loc' = [loc EXCEPT ![p].pc = "sc_unlock",
                                  ![p].sets = loc[p].sets + 1]
    /\ UNCHANGED <<heap, maps, botID, rlock, hostVars, panicked>>

\* defer p.configurationLock.Unlock(), and the return to the caller.
SetConfigurationReturn(p) ==
    /\ At(p, "sc_unlock")
    /\ wlock' = None
    /\ loc' = [loc EXCEPT ![p] = Return([loc[p] EXCEPT !.setarg = Nil])]
    /\ UNCHANGED <<heap, maps, configuration, botID, rlock, wwait, hostVars,
                   histVars, panicked>>

\* The panic unwinds: the deferred Unlock runs, then the process dies.
SetConfigurationPanic(p) ==
    /\ At(p, "sc_panic")
    /\ wlock' = None
    /\ panicked' = TRUE
    /\ loc' = [loc EXCEPT ![p].pc = "panicked", ![p].res = "panic"]
    /\ UNCHANGED <<heap, maps, configuration, botID, rlock, wwait, hostVars,
                   histVars>>

\* ------------------------------------------------------ starting a hook
Idle(p) == At(p, "idle")
WriterHooks == {"occ", "cmd"}
ActiveWriters == {q \in Procs : loc[q].hook \in WriterHooks}

\* A writer hook starts only while the behaviour's budget of writes lasts.
WriteBudget == Cardinality(everPublished) + Cardinality(ActiveWriters) < MaxWrites

\* conf0 remembers, for the properties, what was published when the hook began.
Begin(p, h, a, first) ==
    [IdleLoc EXCEPT !.hook = h, !.arg = a, !.pc = first, !.conf0 = configuration]
Done(l, r) == [l EXCEPT !.pc = "done", !.res = r, !.stack = <<>>]

\* The hook returned to the host: its locals die, garbage is collected.
Finish(p) ==
    /\ At(p, "done")
    /\ LET lc == [loc EXCEPT ![p] = IdleLoc]
           live == Live(configuration, lc)
       IN /\ loc' = lc
          /\ heap' = Collect(heap, live)
          /\ maps' = CollectMaps(maps, heap, live)
          /\ pubValue' = CollectValues(pubValue, live)
    /\ UNCHANGED <<configuration, botID, lockVars, hostVars, everPublished,
                   rawAccess, panicked>>

\* -------------------------------------------------------------- handleStatus
\* GET /status: configuration := p.getConfiguration()
HandleStatusStart(p) ==
    /\ Idle(p)
    /\ loc' = [loc EXCEPT ![p] =
                 Call(Begin(p, "status", "", "gc_rlock"), "gc_rlock", "hs_resp")]
    /\ UNCHANGED <<heap, maps, configuration, botID, lockVars, hostVars,
                   histVars, panicked>>

\* Enabled: !configuration.disabled, written to the response.
HandleStatusRespond(p) ==
    /\ At(p, "hs_resp")
    /\ loc' = [loc EXCEPT ![p] =
                 Done([loc[p] EXCEPT !.cfg = loc[p].snap, !.snap = Nil],
                      IF heap[loc[p].snap].disabled THEN "disabled" ELSE "enabled")]
    /\ UNCHANGED <<heap, maps, configuration, botID, lockVars, hostVars,
                   histVars, panicked>>

\* ------------------------------------------------------- executeCommandHooks
\* /demo_plugin true|false: configuration := p.getConfiguration()
ExecuteCommandHooksStart(p) ==
    /\ Idle(p)
    /\ WriteBudget
    /\ \E a \in {"true", "false", "other"} :
         loc' = [loc EXCEPT ![p] =
                   Call(Begin(p, "cmd", a, "gc_rlock"), "gc_rlock", "ech_check")]
    /\ UNCHANGED <<heap, maps, configuration, botID, lockVars, hostVars,
                   histVars, panicked>>

\* if !configuration.disabled (after "true"), if configuration.disabled (after
\* "false"): the command asks for the state the snapshot already has.
NeverAlready(a, dis) == FALSE
AlreadyInState(a, dis) == (a = "true" /\ ~dis) \/ (a = "false" /\ dis)

\* The HasSuffix tests and the already-enabled / already-disabled returns.
ExecuteCommandHooksCheck(p) ==
    /\ At(p, "ech_check")
    /\ LET l == [loc[p] EXCEPT !.cfg = loc[p].snap, !.snap = Nil]
           dis == heap[loc[p].snap].disabled
       IN loc' = [loc EXCEPT ![p] =
            CASE l.arg = "true" /\ AlreadyInState(l.arg, dis) ->
                    Done(l, "already enabled")
              [] l.arg = "true" ->
                    Call([l EXCEPT !.enabled = TRUE], "se_get", "ech_emit")
              [] l.arg = "false" /\ AlreadyInState(l.arg, dis) ->
                    Done(l, "already disabled")
              [] l.arg = "false" ->
                    Call([l EXCEPT !.enabled = FALSE], "se_get", "ech_emit")
              [] OTHER -> Done(l, "unknown")]
    /\ UNCHANGED <<heap, maps, configuration, botID, lockVars, hostVars,
                   histVars, panicked>>

\* p.emitStatusChange(): configuration := p.getConfiguration()
EmitStatusChangeGet(p) ==
    /\ At(p, "ech_emit")
    /\ loc' = [loc EXCEPT ![p] = Call(loc[p], "gc_rlock", "esc_publish")]
    /\ UNCHANGED <<heap, maps, configuration, botID, lockVars, hostVars,
                   histVars, panicked>>

\* PublishWebSocketEvent("status_change", {"enabled": !configuration.disabled})
EmitStatusChangePublish(p) ==
    /\ At(p, "esc_publish")
    /\ loc' = [loc EXCEPT ![p] =
                 Done([loc[p] EXCEPT
                         !.emitted = Append(loc[p].emitted,
                                            ~heap[loc[p].snap].disabled),
                         !.snap = Nil],
                      IF loc[p].enabled THEN "enabled" ELSE "disabled")]
    /\ UNCHANGED <<heap, maps, configuration, botID, lockVars, hostVars,
                   histVars, panicked>>

\* ------------------------------------------------------------------ setEnabled
\* The instance a writer modifies and then publishes: the clone it made of
\* its snapshot, never the snapshot.
ModifiesSnapshot(snapshot, clone) == snapshot
Modified(snapshot, clone) == clone

\* var configuration = p.getConfiguration() ...
SetEnabledGet(p) ==
    /\ At(p, "se_get")
    /\ loc' = [loc EXCEPT ![p] = Call(loc[p], "gc_rlock", "se_clone")]
    /\ UNCHANGED <<heap, maps, configuration, botID, lockVars, hostVars,
                   histVars, panicked>>

\* ... .Clone(); configuration.disabled = !enabled; and the call
\* p.setConfiguration(configuration), which returns to setEnabled's caller.
SetEnabledClone(p) ==
    /\ At(p, "se_clone")
    /\ LET src == loc[p].snap
           dst == Modified(src, NewId)
       IN /\ heap' = [CloneHeap(heap, src, NewId) EXCEPT
                         ![dst].disabled = ~loc[p].enabled]
          /\ maps' = CloneMaps(maps, heap, src, NewId)
          /\ loc' = [loc EXCEPT ![p] =
                       [loc[p] EXCEPT !.snap = Nil, !.newc = dst,
                                      !.setarg = dst, !.pc = "sc_lock"]]
    /\ UNCHANGED <<configuration, botID, lockVars, hostVars, histVars, panicked>>

\* ------------------------------------------------------------ host helpers
\* GetTeams' answer: the existing teams, in the host's order.  (A range that
\* stops after the first team would visit only that one.)
FirstTeamOnly(ts) == IF TeamList[1] \in ts THEN <<TeamList[1]>> ELSE <<>>
TeamSeq(ts) == SelectSeq(TeamList, LAMBDA t : t \in ts)

\* The id of the channel called name in team t.
ChannelId(t, name) == <<t, name>>

\* LoadPluginConfiguration / json.Unmarshal into a struct: the fields the
\* settings object names are set, the others keep their values.
Overlay(c, s) == [f \in DOMAIN c |-> IF f \in DOMAIN s THEN s[f] ELSE c[f]]

\* ---------------------------------------------------------- diffConfiguration
DiffKeys == {"username", "channel_name", "lastname", "text_style",
             "random_secret", "secret_message", "enable_mention_user",
             "mention_user", "secret_number"}

\* The field each if-statement compares.
DiffField(k) ==
    CASE k = "username" -> "Username"
      [] k = "channel_name" -> "ChannelName"
      [] k = "lastname" -> "LastName"
      [] k = "text_style" -> "TextStyle"
      [] k = "random_secret" -> "RandomSecret"
      [] k = "secret_message" -> "SecretMessage"
      [] k = "enable_mention_user" -> "EnableMentionUser"
      [] k = "mention_user" -> "MentionUser"
      [] OTHER -> "SecretNumber"

\* The value each if-statement stores.
DiffValue(k, n) ==
    CASE k = "username" -> n.Username
      [] k = "channel_name" -> n.ChannelName
      [] k = "lastname" -> n.LastName
      [] k = "text_style" -> n.ChannelName
      [] k = "random_secret" -> "<HIDDEN>"
      [] k = "secret_message" -> n.SecretMessage
      [] k = "enable_mention_user" -> n.EnableMentionUser
      [] k = "mention_user" -> n.MentionUser
      [] OTHER -> n.SecretNumber

ConfigurationDiff(n, o) ==
    [k \in {x \in DiffKeys : n[DiffField(x)] # o[DiffField(x)]} |-> DiffValue(k, n)]

\* ------------------------------------------------------ OnConfigurationChange
\* The call p.setConfiguration(configuration) that follows diffConfiguration.
PublishesNil(l) ==
    Call([l EXCEPT !.setarg = Nil, !.old = Nil, !.diff = EmptyMap,
                   !.tl = <<>>, !.idx = 1],
         "sc_lock", "occ_ret")
SkipsPublication(l) ==
    [l EXCEPT !.old = Nil, !.diff = EmptyMap, !.tl = <<>>, !.idx = 1,
              !.pc = "occ_ret"]
CallSet(l) ==
    Call([l EXCEPT !.setarg = l.newc, !.old = Nil, !.diff = EmptyMap,
                   !.tl = <<>>, !.idx = 1],
         "sc_lock", "occ_ret")

\* A failed load or ensure step: return errors.Wrap(err, ...) to the host.
FailButPublish(l) == CallSet([l EXCEPT !.failed = TRUE])
Fail(l) == Done([l EXCEPT !.failed = TRUE], "err")

\* configuration := p.getConfiguration() ...
OnConfigurationChangeStart(p) ==
    /\ Idle(p)
    /\ WriteBudget
    /\ loc' = [loc EXCEPT ![p] =
                 Call(Begin(p, "occ", "", "gc_rlock"), "gc_rlock", "occ_clone")]
    /\ UNCHANGED <<heap, maps, configuration, botID, lockVars, hostVars,
                   histVars, panicked>>

\* ... .Clone()
OnConfigurationChangeClone(p) ==
    /\ At(p, "occ_clone")
    /\ LET src == loc[p].snap
           dst == Modified(src, NewId)
       IN /\ heap' = CloneHeap(heap, src, NewId)
          /\ maps' = CloneMaps(maps, heap, src, NewId)
          /\ loc' = [loc EXCEPT ![p].snap = Nil, ![p].newc = dst,
                                ![p].pc = "occ_load"]
    /\ UNCHANGED <<configuration, botID, lockVars, hostVars, histVars, panicked>>

\* p.API.LoadPluginConfiguration(configuration): the settings the host holds
\* at this moment, or a failure.
OnConfigurationChangeLoad(p) ==
    /\ At(p, "occ_load")
    /\ \E s \in LoadableSettings \cup {"failure"} :
         IF s # "failure"
         THEN /\ heap' = [heap EXCEPT ![loc[p].newc] =
                            Overlay(heap[loc[p].newc], Settings(s))]
              /\ loc' = [loc EXCEPT ![p].arg = s, ![p].pc = "edu_get"]
         ELSE /\ loc' = [loc EXCEPT ![p] = Fail(loc[p])]
              /\ UNCHANGED heap
    /\ UNCHANGED <<maps, configuration, botID, lockVars, hostVars, histVars,
                   panicked>>

\* What GetUserByUsername can answer for name on a host with the users us:
\* the user, a not-found error, or another error.
LookupResults(name, us) ==
    {"error"} \cup (IF name \in DOMAIN us THEN {"user"} ELSE {"notfound"})

\* if err != nil { if err.StatusCode == http.StatusNotFound { ... } }
AnyErrorIsNotFound(r) == r # "user"
IsNotFound(r) == r = "notfound"

\* ensureDemoUser: p.API.GetUserByUsername(configuration.Username)
EnsureDemoUserGet(p) ==
    /\ At(p, "edu_get")
    /\ LET name == heap[loc[p].newc].Username
       IN \E r \in LookupResults(name, users) :
            LET l == [loc[p] EXCEPT !.lookup = r]
            IN loc' = [loc EXCEPT ![p] =
                 IF IsNotFound(r) THEN [l EXCEPT !.pc = "edu_create"]
                 ELSE IF r = "error" THEN Fail(l)
                 ELSE [l EXCEPT !.user = name, !.ulast = users[name],
                                !.pc = "edu_update"]]
    /\ UNCHANGED <<heap, maps, configuration, botID, lockVars, hostVars,
                   histVars, panicked>>

\* {"user"} when the host has a user called name, for the properties: a
\* create call that failed although (or because) the resource exists.
Existing(name, us) == IF name \in DOMAIN us THEN {"user"} ELSE {}

\* StatusNotFound: p.API.CreateUser(...); it fails when the user exists by now.
EnsureDemoUserCreate(p) ==
    /\ At(p, "edu_create")
    /\ LET name == heap[loc[p].newc].Username
           last == heap[loc[p].newc].LastName
       IN \E ok \in BOOLEAN :
            IF ok /\ name \notin DOMAIN users
            THEN /\ users' = (name :> last) @@ users
                 /\ loc' = [loc EXCEPT ![p].user = name, ![p].ulast = last,
                                       ![p].created = loc[p].created \cup {"user"},
                                       ![p].pc = "edu_update"]
            ELSE /\ loc' = [loc EXCEPT ![p] =
                              Fail([loc[p] EXCEPT
                                      !.created = loc[p].created \cup {"user"},
                                      !.lost = {"user"} \cap Existing(name, users)])]
                 /\ UNCHANGED users
    /\ UNCHANGED <<heap, maps, configuration, botID, lockVars, teams,
                   channels, histVars, panicked>>

\* if user.LastName != configuration.LastName { p.API.UpdateUser(user) }
EnsureDemoUserUpdate(p) ==
    /\ At(p, "edu_update")
    /\ LET last == heap[loc[p].newc].LastName
       IN IF loc[p].ulast = last
          THEN /\ loc' = [loc EXCEPT ![p].pc = "edu_teams"]
               /\ UNCHANGED users
          ELSE \E ok \in BOOLEAN :
                 IF ok /\ loc[p].user \in DOMAIN users
                 THEN /\ users' = [users EXCEPT ![loc[p].user] = last]
                      /\ loc' = [loc EXCEPT ![p].ulast = last,
                                            ![p].pc = "edu_teams"]
                 ELSE /\ loc' = [loc EXCEPT ![p] = Fail(loc[p])]
                      /\ UNCHANGED users
    /\ UNCHANGED <<heap, maps, configuration, botID, lockVars, teams,
                   channels, histVars, panicked>>

\* p.API.GetTeams(), the CreateTeamMember loop (its errors are only logged),
\* return user.Id; and the caller's configuration.demoUserID = demoUserID.
EnsureDemoUserTeams(p) ==
    /\ At(p, "edu_teams")
    /\ \E ok \in BOOLEAN :
         IF ok
         THEN /\ heap' = [heap EXCEPT ![loc[p].newc].demoUserID = loc[p].user]
              /\ loc' = [loc EXCEPT ![p].user = "", ![p].ulast = "",
                                    ![p].pc = "occ_bot"]
         ELSE /\ loc' = [loc EXCEPT ![p] = Fail(loc[p])]
              /\ UNCHANGED heap
    /\ UNCHANGED <<maps, configuration, botID, lockVars, hostVars, histVars,
                   panicked>>

\* p.client.Bot.EnsureBot(...); p.botID = botID
OnConfigurationChangeEnsureBot(p) ==
    /\ At(p, "occ_bot")
    /\ \E ok \in BOOLEAN :
         IF ok
         THEN /\ botID' = "bot"
              /\ loc' = [loc EXCEPT ![p].pc = "edc_teams"]
         ELSE /\ loc' = [loc EXCEPT ![p] = Fail(loc[p])]
              /\ UNCHANGED botID
    /\ UNCHANGED <<heap, maps, configuration, lockVars, hostVars, histVars,
                   panicked>>

\* if err != nil { return nil, err }: any list of teams GetTeams returns
\* without an error is accepted, the empty one too.
RejectsNoTeams(ok, ts) == ok /\ ts # {}
TeamsAccepted(ok, ts) == ok

\* ensureDemoChannels: p.API.GetTeams(); demoChannelIDs := make(map...)
EnsureDemoChannelsTeams(p) ==
    /\ At(p, "edc_teams")
    /\ \E ok \in BOOLEAN :
         LET l == [loc[p] EXCEPT !.gotTeams = ok,
                                 !.seen = IF ok THEN teams ELSE {}]
         IN IF TeamsAccepted(ok, teams)
            THEN /\ loc' = [loc EXCEPT ![p] =
                              [l EXCEPT !.tl = TeamSeq(teams), !.idx = 1,
                                        !.chm = EmptyMap, !.pc = "edc_get"]]
                 /\ UNCHANGED heap
            ELSE /\ heap' = [heap EXCEPT ![loc[p].newc].demoChannelIDs = NilMap]
                 /\ loc' = [loc EXCEPT ![p] = Fail(l)]
    /\ UNCHANGED <<maps, configuration, botID, lockVars, hostVars, histVars,
                   panicked>>

\* channel, _ := p.API.GetChannelByNameForTeamName(...): the channel, or nil
\* when there is none or the lookup failed; demoChannelIDs[team.Id] = channel.Id
EnsureDemoChannelsGet(p) ==
    /\ At(p, "edc_get")
    /\ loc[p].idx <= Len(loc[p].tl)
    /\ LET t == loc[p].tl[loc[p].idx]
           name == heap[loc[p].newc].ChannelName
       IN \E found \in BOOLEAN :
            loc' = [loc EXCEPT ![p] =
              IF found /\ ChannelId(t, name) \in channels
              THEN [loc[p] EXCEPT !.chm = (t :> ChannelId(t, name)) @@ loc[p].chm,
                                  !.idx = loc[p].idx + 1]
              ELSE [loc[p] EXCEPT !.nochan = loc[p].nochan \cup {t},
                                  !.pc = "edc_create"]]
    /\ UNCHANGED <<heap, maps, configuration, botID, lockVars, hostVars,
                   histVars, panicked>>

\* if channel == nil { p.API.CreateChannel(...) }; if err != nil { return nil, err }
EnsureDemoChannelsCreate(p) ==
    /\ At(p, "edc_create")
    /\ LET t == loc[p].tl[loc[p].idx]
           name == heap[loc[p].newc].ChannelName
           called == [loc[p] EXCEPT !.created = loc[p].created \cup {t}]
       IN \E ok \in BOOLEAN :
            IF ok /\ ChannelId(t, name) \notin channels
            THEN /\ channels' = channels \cup {ChannelId(t, name)}
                 /\ loc' = [loc EXCEPT ![p] =
                      [called EXCEPT !.chm = (t :> ChannelId(t, name)) @@ loc[p].chm,
                                     !.idx = loc[p].idx + 1, !.pc = "edc_get"]]
                 /\ UNCHANGED heap
            ELSE /\ heap' = [heap EXCEPT ![loc[p].newc].demoChannelIDs = NilMap]
                 /\ loc' = [loc EXCEPT ![p] =
                              Fail([called EXCEPT
                                      !.failedTeam = t,
                                      !.lost = {t} \cap
                                          {x \in Teams :
                                             ChannelId(x, name) \in channels}])]
                 /\ UNCHANGED channels
    /\ UNCHANGED <<maps, configuration, botID, lockVars, teams, users,
                   histVars, panicked>>

\* return demoChannelIDs, nil; configuration.demoChannelIDs = ...; and the
\* call p.diffConfiguration(configuration), which starts with getConfiguration.
EnsureDemoChannelsDone(p) ==
    /\ At(p, "edc_get")
    /\ loc[p].idx > Len(loc[p].tl)
    /\ heap' = [heap EXCEPT ![loc[p].newc].demoChannelIDs = EnsureMapId(loc[p].newc)]
    /\ maps' = [maps EXCEPT ![EnsureMapId(loc[p].newc)] = loc[p].chm]
    /\ loc' = [loc EXCEPT ![p] =
                 Call([loc[p] EXCEPT !.tl = <<>>, !.idx = 1, !.chm = EmptyMap],
                      "gc_rlock", "diff_compare")]
    /\ UNCHANGED <<configuration, botID, lockVars, hostVars, histVars, panicked>>

\* diffConfiguration: the nine comparisons; if len(configurationDiff) == 0 { return }
DiffConfigurationCompare(p) ==
    /\ At(p, "diff_compare")
    /\ LET d == ConfigurationDiff(heap[loc[p].newc], heap[loc[p].snap])
       IN loc' = [loc EXCEPT ![p] =
            LET l == [loc[p] EXCEPT !.old = loc[p].snap, !.snap = Nil, !.diff = d]
            IN IF DOMAIN d = {} THEN CallSet(l) ELSE [l EXCEPT !.pc = "diff_teams"]]
    /\ UNCHANGED <<heap, maps, configuration, botID, lockVars, hostVars,
                   histVars, panicked>>

\* teams, err := p.API.GetTeams(); a failure is logged and ends the diff only.
DiffConfigurationTeams(p) ==
    /\ At(p, "diff_teams")
    /\ \E ok \in BOOLEAN :
         loc' = [loc EXCEPT ![p] =
           IF ok THEN [loc[p] EXCEPT !.tl = TeamSeq(teams), !.idx = 1,
                                     !.pc = "diff_notify"]
           ELSE CallSet(loc[p])]
    /\ UNCHANGED <<heap, maps, configuration, botID, lockVars, hostVars,
                   histVars, panicked>>

\* json.Marshal(newConfiguration): the exported fields, under their names.
ExportedFields ==
    {"Username", "ChannelName", "LastName", "TextStyle", "RandomSecret",
     "SecretMessage", "EnableMentionUser", "MentionUser", "SecretNumber",
     "IntegrationRequestDelay"}
Marshal(c) == [f \in ExportedFields |-> c[f]]

\* One round of the loop: UploadFile and CreatePost for the team's channel.
DiffConfigurationNotify(p) ==
    /\ At(p, "diff_notify")
    /\ LET new == loc[p].newc
           m == MapOf(maps, heap[new].demoChannelIDs)
       IN IF loc[p].idx > Len(loc[p].tl)
          THEN loc' = [loc EXCEPT ![p] = CallSet(loc[p])]
          ELSE LET t == loc[p].tl[loc[p].idx]
               IN IF t \notin DOMAIN m
                  THEN loc' = [loc EXCEPT ![p].idx = loc[p].idx + 1]
                  ELSE \E r \in {"ok", "upload failed", "post failed"} :
                         LET up == [ch |-> m[t], name |-> "configuration.json",
                                    data |-> Marshal(heap[new])]
                         IN loc' = [loc EXCEPT ![p] =
                           IF r = "ok"
                           THEN [loc[p] EXCEPT
                                   !.uploads = Append(loc[p].uploads, up),
                                   !.posts = Append(loc[p].posts,
                                       [ch |-> m[t], msg |-> "OnConfigChange",
                                        props |-> loc[p].diff]),
                                   !.idx = loc[p].idx + 1]
                           ELSE IF r = "post failed"
                           THEN CallSet([loc[p] EXCEPT
                                   !.uploads = Append(loc[p].uploads, up)])
                           ELSE CallSet(loc[p])]
    /\ UNCHANGED <<heap, maps, configuration, botID, lockVars, hostVars,
                   histVars, panicked>>

\* return nil
OnConfigurationChangeReturn(p) ==
    /\ At(p, "occ_ret")
    /\ loc' = [loc EXCEPT ![p] = Done(loc[p], "nil")]
    /\ UNCHANGED <<heap, maps, configuration, botID, lockVars, hostVars,
                   histVars, panicked>>

\* ------------------------------------------------------------ postPluginMessage
NoChannel == <<>>

\* The call p.postPluginMessage(teamID, msg), which starts with getConfiguration.
CallPost(l, t, m, ret) ==
    Call(Call([l EXCEPT !.team = t, !.msg = m], "pm_post", ret),
         "gc_rlock", "pm_post")

\* if configuration.disabled { return nil }; with a team id: one CreatePost to
\* configuration.demoChannelIDs[teamID], whose error is returned.
PostPluginMessagePost(p) ==
    /\ At(p, "pm_post")
    /\ LET c == loc[p].snap
           m == MapOf(maps, heap[c].demoChannelIDs)
           ch == IF loc[p].team \in DOMAIN m THEN m[loc[p].team] ELSE NoChannel
           l == [loc[p] EXCEPT !.snap = Nil]
       IN IF heap[c].disabled
          THEN loc' = [loc EXCEPT ![p] = Return([l EXCEPT !.perr = FALSE])]
          ELSE \E ok \in BOOLEAN :
                 loc' = [loc EXCEPT ![p] =
                   Return([l EXCEPT
                      !.perr = ~ok,
                      !.posts = Append(l.posts,
                          [ch |-> ch, msg |-> l.msg, props |-> EmptyMap])])]
    /\ UNCHANGED <<heap, maps, configuration, botID, lockVars, hostVars,
                   histVars, panicked>>

\* ------------------------------------------------------ ConfigurationWillBeSaved
\* cfg := p.getConfiguration(); the argument names the plugin settings of the
\* configuration about to be saved ("null": it has none for this plugin).
ConfigurationWillBeSavedStart(p) ==
    /\ Idle(p)
    /\ \E a \in SavableSettings :
         loc' = [loc EXCEPT ![p] =
                   Call(Begin(p, "save", a, "gc_rlock"), "gc_rlock", "cw_check")]
    /\ UNCHANGED <<heap, maps, configuration, botID, lockVars, hostVars,
                   histVars, panicked>>

\* if cfg.disabled { return nil, nil }; teams, appErr := p.API.GetTeams()
ConfigurationWillBeSavedCheck(p) ==
    /\ At(p, "cw_check")
    /\ LET l == [loc[p] EXCEPT !.cfg = loc[p].snap, !.snap = Nil]
       IN IF heap[l.cfg].disabled
          THEN loc' = [loc EXCEPT ![p] = Done(l, "nil")]
          ELSE \E ok \in BOOLEAN :
                 loc' = [loc EXCEPT ![p] =
                   IF ok THEN [l EXCEPT !.tl = TeamSeq(teams), !.idx = 1,
                                        !.pc = "cw_unmarshal"]
                   ELSE Done(l, "nil")]
    /\ UNCHANGED <<heap, maps, configuration, botID, lockVars, hostVars,
                   histVars, panicked>>

\* What json.Unmarshal(js, &cfg) writes to: the instance cfg points to.
UnmarshalInto(h, c, s) == [h EXCEPT ![c] = Overlay(h[c], s)]

\* json.Marshal(configData); json.Unmarshal(js, &cfg); if cfg == nil { return newCfg, nil }
ConfigurationWillBeSavedUnmarshal(p) ==
    /\ At(p, "cw_unmarshal")
    /\ IF loc[p].arg = "null"
       THEN /\ loc' = [loc EXCEPT ![p] = Done([loc[p] EXCEPT !.cfg = Nil], "newCfg")]
            /\ UNCHANGED heap
       ELSE /\ heap' = UnmarshalInto(heap, loc[p].cfg, Settings(loc[p].arg))
            /\ loc' = [loc EXCEPT ![p].pc = "cw_loop"]
    /\ UNCHANGED <<maps, configuration, botID, lockVars, hostVars, histVars,
                   panicked>>

\* for _, team := range teams { p.postPluginMessage(team.Id, msg) }, then the
\* returns on cfg.Username.
ConfigurationWillBeSavedLoop(p) ==
    /\ At(p, "cw_loop")
    /\ LET name == heap[loc[p].cfg].Username
           msg == IF name = "invalid" THEN "won't be saved"
                  ELSE IF name = "replaceme" THEN "replacing" ELSE "will be saved"
       IN loc' = [loc EXCEPT ![p] =
            IF loc[p].idx <= Len(loc[p].tl)
            THEN CallPost(loc[p], loc[p].tl[loc[p].idx], msg, "cw_next")
            ELSE Done(loc[p], IF name = "invalid" THEN "err"
                              ELSE IF name = "replaceme" THEN "replaced"
                              ELSE "nil")]
    /\ UNCHANGED <<heap, maps, configuration, botID, lockVars, hostVars,
                   histVars, panicked>>

\* The error of postPluginMessage is logged; the loop goes on.
ConfigurationWillBeSavedNext(p) ==
    /\ At(p, "cw_next")
    /\ loc' = [loc EXCEPT ![p].idx = loc[p].idx + 1, ![p].pc = "cw_loop"]
    /\ UNCHANGED <<heap, maps, configuration, botID, lockVars, hostVars,
                   histVars, panicked>>

\* --------------------------------------------------------------- BackgroundJob
BackgroundJobStart(p) ==
    /\ Idle(p)
    /\ loc' = [loc EXCEPT ![p] =
                 Call(Begin(p, "job", "", "gc_rlock"), "gc_rlock", "bj_check")]
    /\ UNCHANGED <<heap, maps, configuration, botID, lockVars, hostVars,
                   histVars, panicked>>

\* if configuration.disabled { return }
BackgroundJobCheck(p) ==
    /\ At(p, "bj_check")
    /\ LET l == [loc[p] EXCEPT !.cfg = loc[p].snap, !.snap = Nil]
       IN loc' = [loc EXCEPT ![p] =
            IF heap[l.cfg].disabled THEN Done(l, "skipped")
            ELSE [l EXCEPT !.keys = DOMAIN MapOf(maps, heap[l.cfg].demoChannelIDs),
                           !.pc = "bj_loop"]]
    /\ UNCHANGED <<heap, maps, configuration, botID, lockVars, hostVars,
                   histVars, panicked>>

\* The entries the range still has to visit after the post for k: an error
\* is logged and the range goes on.
StopsAtFailedPost(keys, k, ok) == IF ok THEN keys \ {k} ELSE {}
RemainingChannels(keys, k, ok) == keys \ {k}

\* for _, channelID := range configuration.demoChannelIDs { CreatePost }: an
\* error is logged and the range goes on.
BackgroundJobPost(p) ==
    /\ At(p, "bj_loop")
    /\ LET m == MapOf(maps, heap[loc[p].cfg].demoChannelIDs)
       IN IF loc[p].keys = {}
          THEN loc' = [loc EXCEPT ![p] = Done(loc[p], "ran")]
          ELSE \E k \in loc[p].keys, ok \in BOOLEAN :
                 loc' = [loc EXCEPT ![p] =
                   [loc[p] EXCEPT
                      !.keys = RemainingChannels(loc[p].keys, k, ok),
                      !.perr = ~ok,
                      !.apierr = (loc[p].apierr \/ ~ok),
                      !.posts = Append(loc[p].posts,
                          [ch |-> IF k \in DOMAIN m THEN m[k] ELSE NoChannel,
                           msg |-> "Background job executed",
                           props |-> EmptyMap])]]
    /\ UNCHANGED <<heap, maps, configuration, botID, lockVars, hostVars,
                   histVars, panicked>>

\* ----------------------------------------------------------------- handleDialog
\* POST /sre-request/submit-request: configuration := p.getConfiguration()
HandleDialogStart(p) ==
    /\ Idle(p)
    /\ loc' = [loc EXCEPT ![p] =
                 Call(Begin(p, "dialog", "", "gc_rlock"), "gc_rlock", "hd_teams")]
    /\ UNCHANGED <<heap, maps, configuration, botID, lockVars, hostVars,
                   histVars, panicked>>

\* teams, err2 := p.API.GetTeams(): the error is dropped, teams is then empty.
HandleDialogTeams(p) ==
    /\ At(p, "hd_teams")
    /\ \E ok \in BOOLEAN :
         loc' = [loc EXCEPT ![p] =
           [loc[p] EXCEPT !.cfg = loc[p].snap, !.snap = Nil,
                          !.apierr = ~ok,
                          !.tl = IF ok THEN TeamSeq(teams) ELSE <<>>,
                          !.idx = 1, !.pc = "hd_loop"]]
    /\ UNCHANGED <<heap, maps, configuration, botID, lockVars, hostVars,
                   histVars, panicked>>

\* The loop over the teams: a post to each team that has a demo channel.
HandleDialogLoop(p) ==
    /\ At(p, "hd_loop")
    /\ LET m == MapOf(maps, heap[loc[p].cfg].demoChannelIDs)
       IN loc' = [loc EXCEPT ![p] =
            IF loc[p].idx > Len(loc[p].tl)
            THEN [loc[p] EXCEPT !.pc = "hd_decode"]
            ELSE IF loc[p].tl[loc[p].idx] \notin DOMAIN m
                 THEN [loc[p] EXCEPT !.idx = loc[p].idx + 1]
                 ELSE CallPost(loc[p], loc[p].tl[loc[p].idx], "OnActivate", "hd_next")]
    /\ UNCHANGED <<heap, maps, configuration, botID, lockVars, hostVars,
                   histVars, panicked>>

HandleDialogNext(p) ==
    /\ At(p, "hd_next")
    /\ loc' = [loc EXCEPT ![p].idx = loc[p].idx + 1, ![p].pc = "hd_loop"]
    /\ UNCHANGED <<heap, maps, configuration, botID, lockVars, hostVars,
                   histVars, panicked>>

\* Decode the request, p.API.GetUser, request.Submission["4-User Impact"].(string)
HandleDialogDecode(p) ==
    /\ At(p, "hd_decode")
    /\ \E r \in {"ok", "bad body", "no user", "no impact"} :
         /\ loc' = [loc EXCEPT ![p] =
              CASE r = "ok" -> [loc[p] EXCEPT !.pc = "hd_root"]
                [] r = "bad body" -> Done(loc[p], "400")
                [] r = "no user" -> Done(loc[p], "200")
                [] OTHER -> [loc[p] EXCEPT !.pc = "panicked", !.res = "panic"]]
         /\ panicked' = (panicked \/ r = "no impact")
    /\ UNCHANGED <<heap, maps, configuration, botID, lockVars, hostVars, histVars>>

\* Whether the handler holds configurationLock when it evaluates
\* p.configuration.ChannelID and p.configuration.TagUsers: it does not.
DialogReadHolds(p) == Holds(p)

\* rootPost, appErr := p.API.CreatePost(&model.Post{ChannelId: p.configuration.ChannelID, ...})
HandleDialogRootPost(p) ==
    /\ At(p, "hd_root")
    /\ rawAccess' = (rawAccess \/ ~DialogReadHolds(p))
    /\ IF configuration = Nil
       THEN /\ loc' = [loc EXCEPT ![p].pc = "panicked", ![p].res = "panic"]
            /\ panicked' = TRUE
       ELSE /\ \E ok \in BOOLEAN :
                 loc' = [loc EXCEPT ![p] =
                   IF ok THEN [loc[p] EXCEPT !.pc = "hd_tag"]
                   ELSE Done(loc[p], "post failed")]
            /\ UNCHANGED panicked
    /\ UNCHANGED <<heap, maps, configuration, botID, lockVars, hostVars,
                   everPublished, pubValue>>

\* if p.configuration.TagUsers == "" {...}; if !request.Cancelled { CreatePost(
\* &model.Post{ChannelId: p.configuration.ChannelID, RootId: rootPost.Id, ...}) }
HandleDialogReply(p) ==
    /\ At(p, "hd_tag")
    /\ rawAccess' = (rawAccess \/ ~DialogReadHolds(p))
    /\ IF configuration = Nil
       THEN /\ loc' = [loc EXCEPT ![p].pc = "panicked", ![p].res = "panic"]
            /\ panicked' = TRUE
       ELSE /\ \E ok \in BOOLEAN :
                 loc' = [loc EXCEPT ![p] =
                   Done(loc[p], IF ok THEN "200" ELSE "post failed")]
            /\ UNCHANGED panicked
    /\ UNCHANGED <<heap, maps, configuration, botID, lockVars, hostVars,
                   everPublished, pubValue>>

\* ------------------------------------------------------------- ExecuteCommand
\* The most words a command line carries after its trigger.
MaxArgs == 2
Words == {"a", "b"}
Triggers == {"dialog", "other"}

\* strings.Fields(args.Command) of the command lines the host delivers: the
\* trigger and up to MaxArgs words.
CommandLines ==
    UNION {[1..n -> Triggers \cup Words] : n \in 1..(MaxArgs + 1)}
Commands == {c \in CommandLines :
               c[1] \in Triggers /\ \A i \in 2..Len(c) : c[i] \in Words}

\* ExecuteCommand: delay := p.getConfiguration().IntegrationRequestDelay
ExecuteCommandStart(p) ==
    /\ Idle(p)
    /\ \E c \in Commands :
         loc' = [loc EXCEPT ![p] =
                   Call([Begin(p, "command", "", "gc_rlock") EXCEPT !.fields = c],
                        "gc_rlock", "ec_switch")]
    /\ UNCHANGED <<heap, maps, configuration, botID, lockVars, hostVars,
                   histVars, panicked>>

\* trigger := strings.TrimPrefix(strings.Fields(args.Command)[0], "/"); switch
ExecuteCommandSwitch(p) ==
    /\ At(p, "ec_switch")
    /\ LET l == [loc[p] EXCEPT !.cfg = loc[p].snap, !.snap = Nil]
       IN loc' = [loc EXCEPT ![p] =
            IF l.fields[1] = "dialog" THEN [l EXCEPT !.pc = "ecd_fields"]
            ELSE Done(l, "Unknown command")]
    /\ UNCHANGED <<heap, maps, configuration, botID, lockVars, hostVars,
                   histVars, panicked>>

\* command := ""; if len(fields) == 2 { command = fields[1] }
DialogCommand(fs) == IF Len(fs) = 2 THEN fs[2] ELSE ""

\* executeCommandDialog: switch command { case "": ...; default: return ... }
ExecuteCommandDialogFields(p) ==
    /\ At(p, "ecd_fields")
    /\ loc' = [loc EXCEPT ![p] =
                 IF DialogCommand(loc[p].fields) = ""
                 THEN [loc[p] EXCEPT !.pc = "ecd_open"]
                 ELSE Done(loc[p], "Unknown command")]
    /\ UNCHANGED <<heap, maps, configuration, botID, lockVars, hostVars,
                   histVars, panicked>>

\* if err := p.API.OpenInteractiveDialog(dialogRequest); err != nil { ... }
ExecuteCommandDialogOpen(p) ==
    /\ At(p, "ecd_open")
    /\ \E ok \in BOOLEAN :
         loc' = [loc EXCEPT ![p] =
                   Done([loc[p] EXCEPT !.opened = loc[p].opened + 1],
                        IF ok THEN "empty response"
                        ELSE "Failed to open Interactive Dialog")]
    /\ UNCHANGED <<heap, maps, configuration, botID, lockVars, hostVars,
                   histVars, panicked>>

\* ------------------------------------------------------------------ the host
\* The next team is created.
HostCreateTeam ==
    /\ ~panicked
    /\ Cardinality(teams) < Len(TeamList)
    /\ teams' = teams \cup {TeamList[Cardinality(teams) + 1]}
    /\ UNCHANGED <<heap, maps, configuration, botID, lockVars, loc, users,
                   channels, histVars, panicked>>

\* ------------------------------------------------------------- specification
\* The plugin after construction: &Plugin{}.
Init ==
    /\ heap = [i \in Ids |-> ZeroConfiguration]
    /\ maps = [m \in MapIds |-> EmptyMap]
    /\ configuration = Nil
    /\ botID = ""
    /\ rlock = {}
    /\ wlock = None
    /\ wwait = None
    /\ loc = [p \in Procs |-> IdleLoc]
    /\ teams = {}
    /\ users = EmptyMap
    /\ channels = {}
    /\ everPublished = {}
    /\ pubValue = [i \in Ids |-> ZeroFlat]
    /\ rawAccess = FALSE
    /\ panicked = FALSE

\* The worker the host delivers configuration changes and commands on, and
\* the worker it delivers requests, saves and job ticks on.
ConfigWorkers == {"w1"}
RequestWorkers == {"w2"}

\* The steps of getConfiguration and setConfiguration, whoever called them.
ConfigurationStep(p) ==
    \/ GetConfigurationRead(p) \/ GetConfigurationReturn(p)
    \/ SetConfigurationLock(p) \/ SetConfigurationSwap(p)
    \/ SetConfigurationReturn(p)

ReloadStep(p) ==
    \/ OnConfigurationChangeClone(p) \/ OnConfigurationChangeLoad(p)
    \/ EnsureDemoUserGet(p) \/ EnsureDemoUserCreate(p) \/ EnsureDemoUserUpdate(p)
    \/ EnsureDemoUserTeams(p) \/ OnConfigurationChangeEnsureBot(p)
    \/ EnsureDemoChannelsTeams(p) \/ EnsureDemoChannelsGet(p)
    \/ EnsureDemoChannelsCreate(p) \/ EnsureDemoChannelsDone(p)
    \/ DiffConfigurationCompare(p) \/ DiffConfigurationTeams(p)
    \/ DiffConfigurationNotify(p) \/ OnConfigurationChangeReturn(p)

CommandStep(p) ==
    \/ ExecuteCommandHooksCheck(p) \/ SetEnabledGet(p) \/ SetEnabledClone(p)
    \/ EmitStatusChangeGet(p) \/ EmitStatusChangePublish(p)

ReaderStep(p) ==
    \/ HandleStatusRespond(p) \/ BackgroundJobCheck(p) \/ BackgroundJobPost(p)

SaveStep(p) ==
    \/ ConfigurationWillBeSavedCheck(p) \/ ConfigurationWillBeSavedUnmarshal(p)
    \/ ConfigurationWillBeSavedLoop(p) \/ ConfigurationWillBeSavedNext(p)

DialogStep(p) ==
    \/ HandleDialogTeams(p) \/ HandleDialogLoop(p) \/ HandleDialogNext(p)
    \/ HandleDialogDecode(p) \/ HandleDialogRootPost(p) \/ HandleDialogReply(p)

\* The plugin under the host: reloads and commands on one worker, status
\* requests and job ticks on the other, teams appearing meanwhile.
Next ==
    \/ \E p \in ConfigWorkers :
         OnConfigurationChangeStart(p) \/ ExecuteCommandHooksStart(p)
    \/ \E p \in RequestWorkers :
         HandleStatusStart(p) \/ BackgroundJobStart(p)
    \/ \E p \in Procs :
         \/ ConfigurationStep(p) \/ ReloadStep(p) \/ CommandStep(p)
         \/ ReaderStep(p) \/ Finish(p)
    \/ HostCreateTeam

Spec == Init /\ [][Next]_vars

\* Writers and readers of the pointer on every worker, under a fair
\* scheduler: either worker runs the enable and disable commands (setEnabled
\* and its setConfiguration) and status requests (getConfiguration), and a
\* worker that can take a step of its hook eventually takes it.  (A worker
\* need not start another hook.)
HookStep(p) ==
    \/ ConfigurationStep(p) \/ CommandStep(p) \/ HandleStatusRespond(p)
    \/ Finish(p)

NextLive ==
    \E p \in Procs :
       \/ ExecuteCommandHooksStart(p) \/ HandleStatusStart(p)
       \/ ConfigurationStep(p) \/ CommandStep(p) \/ HandleStatusRespond(p)
       \/ Finish(p)

Fairness == \A p \in Procs : WF_vars(HookStep(p))

SpecLive == Init /\ [][NextLive]_vars /\ Fairness

\* Every hook of the plugin, the host delivering them on one worker, one
\* after the other.
NextSeq ==
    \/ \E p \in ConfigWorkers :
         \/ OnConfigurationChangeStart(p) \/ ExecuteCommandHooksStart(p)
         \/ HandleStatusStart(p) \/ BackgroundJobStart(p)
         \/ ConfigurationWillBeSavedStart(p) \/ HandleDialogStart(p)
    \/ \E p \in Procs :
         \/ ConfigurationStep(p) \/ ReloadStep(p) \/ CommandStep(p)
         \/ ReaderStep(p) \/ SaveStep(p) \/ PostPluginMessagePost(p)
         \/ DialogStep(p) \/ Finish(p)
    \/ HostCreateTeam

SpecSeq == Init /\ [][NextSeq]_vars

\* Configuration changes delivered on both workers: the host calls
\* OnConfigurationChange from whichever goroutine saved the settings, so two
\* reloads can overlap.
NextRace ==
    \E p \in Procs :
       \/ OnConfigurationChangeStart(p)
       \/ ConfigurationStep(p) \/ ReloadStep(p) \/ Finish(p)

\* The plugin after construction on a host that has its first team.
InitRace ==
    /\ heap = [i \in Ids |-> ZeroConfiguration]
    /\ maps = [m \in MapIds |-> EmptyMap]
    /\ configuration = Nil
    /\ botID = ""
    /\ rlock = {}
    /\ wlock = None
    /\ wwait = None
    /\ loc = [p \in Procs |-> IdleLoc]
    /\ teams = {TeamList[1]}
    /\ users = EmptyMap
    /\ channels = {}
    /\ everPublished = {}
    /\ pubValue = [i \in Ids |-> ZeroFlat]
    /\ rawAccess = FALSE
    /\ panicked = FALSE

SpecRace == InitRace /\ [][NextRace]_vars

\* A configuration change on one worker while the other runs the enable and
\* disable commands, on a host that has its first team.
NextMix ==
    \/ \E p \in ConfigWorkers : OnConfigurationChangeStart(p)
    \/ \E p \in RequestWorkers : ExecuteCommandHooksStart(p)
    \/ \E p \in Procs :
         \/ ConfigurationStep(p) \/ ReloadStep(p) \/ CommandStep(p)
         \/ Finish(p)

SpecMix == InitRace /\ [][NextMix]_vars

\* Slash commands other than the hooks command, delivered on either worker.
NextCmd ==
    \E p \in Procs :
       \/ ExecuteCommandStart(p) \/ ExecuteCommandSwitch(p)
       \/ ExecuteCommandDialogFields(p) \/ ExecuteCommandDialogOpen(p)
       \/ GetConfigurationRead(p) \/ GetConfigurationReturn(p)
       \/ Finish(p)

SpecCmd == Init /\ [][NextCmd]_vars

\* ------------------------------------------- direct calls of the three APIs
\* Code that calls getConfiguration, setConfiguration and Clone directly, as
\* the package's own code may: it keeps the instances it built or got in
\* held, and changes, through the references it holds, the ones that were
\* never published.
Unpublished(p) == loc[p].held \ everPublished
ApiEntries == {EmptyMap, [t \in {TeamList[1]} |-> "a"]}

\* c := &configuration{demoChannelIDs: map[string]string{...}}
ApiNew(p) ==
    /\ Idle(p)
    /\ Cardinality(loc[p].held) < MaxHeld
    /\ \E m \in ApiEntries :
         /\ heap' = [heap EXCEPT ![NewId] =
                       [ZeroConfiguration EXCEPT
                          !.demoChannelIDs = LiteralMapId(NewId)]]
         /\ maps' = [maps EXCEPT ![LiteralMapId(NewId)] = m]
    /\ loc' = [loc EXCEPT ![p].held = loc[p].held \cup {NewId}]
    /\ UNCHANGED <<configuration, botID, lockVars, hostVars, histVars, panicked>>

\* c := p.getConfiguration()
ApiGet(p) ==
    /\ Idle(p)
    /\ Cardinality(loc[p].held) < MaxHeld
    /\ loc' = [loc EXCEPT ![p] =
                 Call([loc[p] EXCEPT !.gets = 0], "gc_rlock", "api_got")]
    /\ UNCHANGED <<heap, maps, configuration, botID, lockVars, hostVars,
                   histVars, panicked>>

ApiGot(p) ==
    /\ At(p, "api_got")
    /\ loc' = [loc EXCEPT ![p].held = loc[p].held \cup {loc[p].snap},
                          ![p].snap = Nil, ![p].pc = "idle"]
    /\ UNCHANGED <<heap, maps, configuration, botID, lockVars, hostVars,
                   histVars, panicked>>

\* p.setConfiguration(c), c one of the held instances or nil
ApiSet(p) ==
    /\ Idle(p)
    /\ \E c \in loc[p].held \cup {Nil} :
         /\ c = Nil \/ c \in everPublished
                    \/ Cardinality(everPublished) < MaxWrites
         /\ loc' = [loc EXCEPT ![p] =
                      Call([loc[p] EXCEPT !.setarg = c, !.sets = 0],
                           "sc_lock", "idle")]
    /\ UNCHANGED <<heap, maps, configuration, botID, lockVars, hostVars,
                   histVars, panicked>>

\* d := c.Clone()
ApiClone(p) ==
    /\ Idle(p)
    /\ Cardinality(loc[p].held) < MaxHeld
    /\ \E c \in loc[p].held :
         /\ heap' = CloneHeap(heap, c, NewId)
         /\ maps' = CloneMaps(maps, heap, c, NewId)
         /\ loc' = [loc EXCEPT ![p].held = loc[p].held \cup {NewId},
                               ![p].pairs = loc[p].pairs \cup {<<c, NewId>>}]
    /\ UNCHANGED <<configuration, botID, lockVars, hostVars, histVars, panicked>>

\* c.demoChannelIDs[t] = "x" (on a nil map Go panics: the caller does not)
ApiPutEntry(p) ==
    /\ Idle(p)
    /\ \E c \in Unpublished(p), t \in Teams :
         /\ heap[c].demoChannelIDs # NilMap
         /\ maps' = [maps EXCEPT ![heap[c].demoChannelIDs] = (t :> "x") @@ @]
    /\ UNCHANGED <<heap, configuration, botID, lockVars, loc, hostVars,
                   histVars, panicked>>

\* delete(c.demoChannelIDs, t)
ApiDeleteEntry(p) ==
    /\ Idle(p)
    /\ \E c \in Unpublished(p), t \in Teams :
         /\ heap[c].demoChannelIDs # NilMap
         /\ t \in DOMAIN maps[heap[c].demoChannelIDs]
         /\ maps' = [maps EXCEPT ![heap[c].demoChannelIDs] =
                       [k \in DOMAIN @ \ {t} |-> @[k]]]
    /\ UNCHANGED <<heap, configuration, botID, lockVars, loc, hostVars,
                   histVars, panicked>>

\* c.disabled = !c.disabled
ApiAssignField(p) ==
    /\ Idle(p)
    /\ \E c \in Unpublished(p) :
         heap' = [heap EXCEPT ![c].disabled = ~@]
    /\ UNCHANGED <<maps, configuration, botID, lockVars, loc, hostVars,
                   histVars, panicked>>

NextAPI ==
    \E p \in ConfigWorkers :
       \/ ApiNew(p) \/ ApiGet(p) \/ ApiGot(p) \/ ApiSet(p) \/ ApiClone(p)
       \/ ApiPutEntry(p) \/ ApiDeleteEntry(p) \/ ApiAssignField(p)
       \/ ConfigurationStep(p) \/ SetConfigurationPanic(p)

SpecAPI == Init /\ [][NextAPI]_vars

\* ================================================================ properties
\* An instance's field values and map entries, whatever map object holds them.
Contents(h, ms, i) ==
    [c |-> [h[i] EXCEPT !.demoChannelIDs = NilMap],
     m |-> MapOf(ms, h[i].demoChannelIDs)]

\* C1: setConfiguration, handed the very instance that is published (and not
\* nil), panics: it neither completes nor changes the pointer, and the
\* process dies.  Handed anything else, nil included, it stores it in the
\* pointer and goes on to return.
C1_SetConfigurationPanicsOrReplaces ==
    [][\A p \in Procs :
         /\ (loc[p].pc = "sc_swap" /\ loc'[p].pc # "sc_swap") =>
               IF loc[p].setarg # Nil /\ configuration = loc[p].setarg
               THEN loc'[p].pc = "sc_panic" /\ configuration' = configuration
               ELSE loc'[p].pc = "sc_unlock" /\ configuration' = loc[p].setarg
         /\ (loc[p].pc = "sc_panic" /\ loc'[p] # loc[p]) =>
               loc'[p].pc = "panicked" /\ panicked'
                 /\ configuration' = configuration
         /\ loc[p].pc = "panicked" => loc'[p].pc = "panicked"]_vars

\* A call with the published instance has panicked.
C1_Witness ==
    /\ panicked
    /\ \E p \in Procs : /\ loc[p].pc = "panicked"
                         /\ loc[p].setarg # Nil
                         /\ configuration = loc[p].setarg

\* C2: an OnConfigurationChange in which the load or an ensure step failed
\* has returned the error, has not called setConfiguration, and has left
\* published the instance that was published when it began, unchanged.
C2_FailedReloadPublishesNothing ==
    \A p \in Procs :
       (loc[p].hook = "occ" /\ loc[p].failed) =>
          /\ loc[p].pc = "done" /\ loc[p].res = "err"
          /\ loc[p].sets = 0 /\ loc[p].setarg = Nil
          /\ configuration = loc[p].conf0
          /\ configuration # Nil =>
                Flat(heap, maps, configuration) = pubValue[configuration]

\* A reload failed at CreateChannel while a configuration was published.
C2_Witness ==
    \E p \in Procs :
       /\ loc[p].hook = "occ" /\ loc[p].failed
       /\ loc[p].created \cap Teams # {}
       /\ configuration # Nil

\* C3: an instance that was published keeps, as long as anything refers to
\* it, the value it had when it was published: no hook changes it in place.
C3_PublishedNeverMutated ==
    \A i \in everPublished \cap Live(configuration, loc) :
       Flat(heap, maps, i) = pubValue[i]

\* C4: whatever getConfiguration returned to a reader that still holds it
\* is either an instance that was published, with exactly the value it was
\* published with, or an unpublished zero-value instance; never the
\* instance a writer is still building.
C4_SnapshotsAreWhole ==
    \A p \in Procs :
       \A r \in {loc[p].snap, loc[p].cfg, loc[p].old} \ {Nil} :
          IF r \in everPublished
          THEN Flat(heap, maps, r) = pubValue[r]
          ELSE /\ Flat(heap, maps, r) = ZeroFlat
               /\ \A q \in Procs : loc[q].newc # r

\* A reader holds a published snapshot while a writer builds its clone.
C4_Witness ==
    \E p, q \in Procs :
       /\ p # q
       /\ loc[p].snap \in everPublished
       /\ loc[q].newc \notin everPublished \cup {Nil}
       /\ Flat(heap, maps, loc[q].newc) # Flat(heap, maps, loc[p].snap)

\* C5: Clone returns a new instance with the field values and the map
\* entries of the original and a new map of its own; a later change to the
\* fields or the map of one instance changes no other instance.
C5_CloneIsDeep ==
    [][/\ \A p \in Procs : \A pr \in loc'[p].pairs \ loc[p].pairs :
            /\ pr[2] \notin Live(configuration, loc)
            /\ Contents(heap', maps', pr[2]) = Contents(heap, maps, pr[1])
            /\ Flat(heap', maps', pr[1]) = Flat(heap, maps, pr[1])
            /\ heap'[pr[2]].demoChannelIDs # NilMap
            /\ \A i \in Live(configuration, loc) :
                  heap'[i].demoChannelIDs # heap'[pr[2]].demoChannelIDs
       /\ (loc' = loc /\ <<heap, maps>>' # <<heap, maps>>) =>
            \E p \in Procs : \E c \in loc[p].held :
               \A d \in Live(configuration, loc) \ {c} :
                  Flat(heap', maps', d) = Flat(heap, maps, d)]_vars

\* A clone and its original differ, in a field and in the map, after changes.
C5_Witness ==
    \E p \in Procs : \E pr \in loc[p].pairs :
       /\ heap[pr[1]].disabled # heap[pr[2]].disabled
       /\ MapOf(maps, heap[pr[1]].demoChannelIDs)
            # MapOf(maps, heap[pr[2]].demoChannelIDs)

\* C6: p.configuration is never read or written by a worker that does not
\* hold configurationLock.
C6_EveryAccessUnderLock == ~rawAccess

\* The positions at which a worker holds the lock: between reading the
\* pointer and the deferred RUnlock, and between the acquired Lock and the
\* deferred Unlock.
LockSection == {"gc_runlock", "sc_unlock", "sc_panic"}

\* C7: a worker holds configurationLock only inside getConfiguration and
\* setConfiguration, its next step gives the lock back, that step calls no
\* host API and touches no instance, and no worker that holds the lock
\* stands at an acquisition of it.
C7_LockOnlyAroundPointer ==
    /\ [](\A p \in Procs : Holds(p) => loc[p].pc \in LockSection)
    /\ [][\A p \in Procs :
            (Holds(p) /\ loc'[p] # loc[p]) =>
               /\ p \notin rlock' /\ wlock' # p
               /\ UNCHANGED <<heap, maps, configuration, botID, hostVars>>]_vars

\* A writer holds the lock inside setConfiguration, having swapped.
C7_Witness ==
    \E p \in Procs : wlock = p /\ loc[p].pc = "sc_unlock"
                         /\ configuration = loc[p].setarg

\* C8: under a fair scheduler every worker waiting in Lock() gets the lock
\* and every worker waiting in RLock() gets it; a reader is held back only
\* by a writer that holds or awaits the lock, never by another reader; and
\* whenever a hook is running, some worker can take a step.
C8_LockProgress ==
    /\ \A p \in Procs :
          (loc[p].pc \in {"sc_lock", "sc_swap"}) ~> (loc[p].pc = "sc_unlock")
    /\ \A p \in Procs : (loc[p].pc = "gc_rlock") ~> (loc[p].pc = "gc_runlock")
    /\ [](\A p \in Procs :
            (loc[p].pc = "gc_rlock" /\ wlock = None /\ wwait = None) =>
               ENABLED GetConfigurationRead(p))
    /\ []((\E p \in Procs : loc[p].pc # "idle") =>
            \E p \in Procs : ENABLED HookStep(p))

\* A writer waits in Lock() while a reader holds the lock.
C8_Witness ==
    \E p \in Procs : wwait = p /\ loc[p].pc = "sc_swap" /\ rlock # {}

\* C9: getConfiguration called while nothing is published returns a new
\* instance with every field at its zero value and no map, and leaves the
\* pointer nil.
C9_GetBeforePublication ==
    [][\A p \in Procs :
         (loc[p].pc = "gc_rlock" /\ loc'[p].pc # "gc_rlock"
            /\ configuration = Nil) =>
            /\ configuration' = Nil
            /\ loc'[p].snap # Nil
            /\ loc'[p].snap \notin Live(configuration, loc)
            /\ Flat(heap', maps', loc'[p].snap) = ZeroFlat]_vars

\* A reader got the zero-value instance and the pointer is still nil.
C9_Witness ==
    \E p \in Procs :
       /\ loc[p].pc = "gc_runlock" /\ configuration = Nil
       /\ loc[p].snap # Nil /\ everPublished = {}

\* C10: an OnConfigurationChange whose load, user ensure and bot ensure
\* succeeded and to which GetTeams reported no team does not fail and calls
\* CreateChannel for no team, and when it has returned it has returned nil
\* and published its instance with an empty demoChannelIDs mapping.
C10_NoTeamsPublishesEmptyMapping ==
    \A p \in Procs :
       (loc[p].hook = "occ" /\ loc[p].gotTeams /\ loc[p].seen = {}) =>
          /\ ~loc[p].failed
          /\ loc[p].created \cap Teams = {}
          /\ loc[p].pc = "done" =>
                /\ loc[p].res = "nil" /\ loc[p].sets = 1
                /\ loc[p].newc \in everPublished
                /\ pubValue[loc[p].newc].m = EmptyMap
                /\ MapOf(maps, heap[loc[p].newc].demoChannelIDs) = EmptyMap

\* A reload on a host without teams has returned nil.
C10_Witness ==
    \E p \in Procs :
       /\ loc[p].hook = "occ" /\ loc[p].gotTeams /\ loc[p].seen = {}
       /\ loc[p].pc = "done" /\ loc[p].res = "nil"
       /\ configuration = loc[p].newc

\* A reload that returned nil: its instance is published.
Reloaded(p) ==
    /\ loc[p].hook = "occ" /\ loc[p].pc = "done" /\ loc[p].res = "nil"
    /\ loc[p].newc \in everPublished

ChannelSetupFailed(p) == loc[p].hook = "occ" /\ loc[p].failedTeam # ""

\* C12 as stated: a reload in which CreateChannel failed for one team ends
\* with a published configuration whose mapping has the other reported teams
\* and no entry for the failed one.
C12_FailedTeamIsOmitted ==
    \A p \in Procs :
       (ChannelSetupFailed(p) /\ loc[p].pc = "done") =>
          /\ loc[p].res = "nil"
          /\ loc[p].newc \in everPublished
          /\ DOMAIN pubValue[loc[p].newc].m
                = loc[p].seen \ {loc[p].failedTeam}

\* C12, amended: a reload in which CreateChannel failed for one team has
\* returned the error and published nothing: its clone, whose mapping is
\* then nil (the entries collected for the teams before the failed one are
\* dropped with it), is never published, and the configuration published
\* before stays.
C12_FailedTeamAbortsReload ==
    \A p \in Procs :
       ChannelSetupFailed(p) =>
          /\ loc[p].pc = "done" /\ loc[p].res = "err"
          /\ loc[p].sets = 0
          /\ loc[p].newc \notin everPublished
          /\ heap[loc[p].newc].demoChannelIDs = NilMap
          /\ configuration = loc[p].conf0

\* CreateChannel failed for the second team after the first team's channel
\* was ensured.
C12_Witness ==
    \E p \in Procs :
       /\ ChannelSetupFailed(p)
       /\ loc[p].failedTeam = TeamList[2]
       /\ DOMAIN loc[p].chm = {TeamList[1]}

\* The fields of a published value other than the identity of its map.
Fields(v) == [v.c EXCEPT !.demoChannelIDs = NilMap]

\* p's successful reload repeated the one that published the configuration
\* it started from: the settings it loaded change no field, the demo user of
\* that configuration is still looked up, and GetTeams reported the teams of
\* its mapping.
RepeatedReload(p) ==
    /\ Reloaded(p)
    /\ loc[p].conf0 # Nil
    /\ LET v0 == pubValue[loc[p].conf0]
       IN /\ v0.c.demoUserID # ""
          /\ Overlay(v0.c, Settings(loc[p].arg)) = v0.c
          /\ loc[p].seen = DOMAIN v0.m

\* C13: CreateUser is attempted only after the lookup answered not-found, and
\* CreateChannel only for a team whose lookup returned no channel; a reload
\* repeated with unchanged settings and teams attempts no creation and
\* publishes the same user id, the same mapping and the same fields.
C13_EnsureStepsIdempotent ==
    \A p \in Procs :
       /\ ("user" \in loc[p].created \/ loc[p].pc = "edu_create")
              => loc[p].lookup = "notfound"
       /\ (loc[p].created \cap Teams) \subseteq loc[p].nochan
       /\ (loc[p].pc = "edc_create") => loc[p].tl[loc[p].idx] \in loc[p].nochan
       /\ RepeatedReload(p) =>
             LET v0 == pubValue[loc[p].conf0]
                 v == pubValue[loc[p].newc]
             IN /\ loc[p].created = {}
                /\ v.c.demoUserID = v0.c.demoUserID
                /\ v.m = v0.m
                /\ Fields(v) = Fields(v0)

\* A reload was repeated over a configuration with a demo user and a
\* non-empty mapping, and published a new instance.
C13_Witness ==
    \E p \in Procs :
       /\ RepeatedReload(p)
       /\ pubValue[loc[p].conf0].m # EmptyMap
       /\ loc[p].newc # loc[p].conf0
       /\ configuration = loc[p].newc

\* p's reload called a create that failed while the resource exists on the
\* host: it had looked the resource up, found it absent, and another reload
\* created it first.
LostRace(p) == loc[p].hook = "occ" /\ loc[p].lost # {}

\* C14: a reload whose create call failed after a lost race does not abort:
\* it returns nil and publishes a configuration that refers to the existing
\* resource.
C14_LostRaceIsTolerated ==
    \A p \in Procs :
       (LostRace(p) /\ loc[p].pc = "done") =>
          /\ loc[p].res = "nil"
          /\ loc[p].newc \in everPublished
          /\ ("user" \in loc[p].lost) =>
                pubValue[loc[p].newc].c.demoUserID \in DOMAIN users
          /\ \A t \in loc[p].lost \cap Teams :
                t \in DOMAIN pubValue[loc[p].newc].m

\* The channels the posts of a sequence went to.
PostChannels(ps) == {ps[i].ch : i \in DOMAIN ps}

\* C15: BackgroundJob calls getConfiguration once; while the snapshot it got
\* has disabled set it attempts no post, and when it returns having found the
\* snapshot enabled it has attempted exactly one post, with the message
\* "Background job executed", for every channel of that snapshot's mapping,
\* whatever was published meanwhile and whether the posts failed or not.
C15_JobPostsOncePerSnapshotChannel ==
    \A p \in Procs :
       (loc[p].hook = "job" /\ loc[p].cfg # Nil) =>
          LET c == heap[loc[p].cfg]
              m == MapOf(maps, c.demoChannelIDs)
              chans == {m[t] : t \in DOMAIN m}
          IN /\ loc[p].gets = 1
             /\ c.disabled => (loc[p].posts = <<>> /\ loc[p].res \in {"", "skipped"})
             /\ \A i \in DOMAIN loc[p].posts :
                   /\ loc[p].posts[i].msg = "Background job executed"
                   /\ loc[p].posts[i].ch \in chans
                   /\ \A j \in DOMAIN loc[p].posts :
                         loc[p].posts[i].ch = loc[p].posts[j].ch => i = j
             /\ (loc[p].pc = "done" /\ ~c.disabled) =>
                   /\ loc[p].res = "ran"
                   /\ PostChannels(loc[p].posts) = chans
                   /\ Len(loc[p].posts) = Cardinality(chans)

\* The job returned after a post for each of two channels, one of which
\* failed last, of a snapshot that was replaced while the job ran.
C15_Witness ==
    \E p \in Procs :
       /\ loc[p].hook = "job" /\ loc[p].pc = "done" /\ loc[p].res = "ran"
       /\ Len(loc[p].posts) = 2
       /\ loc[p].perr
       /\ configuration # loc[p].cfg

\* The step of OnConfigurationChange a worker is in: 0 taking the current
\* snapshot, 1 cloning it, 2 overlaying the settings, 3 ensuring user, bot
\* and channels, 4 diffing and notifying, 5 publishing, 6 returning, 7 back
\* at the host.
Phase(l) ==
    LET at == IF l.pc \in {"gc_rlock", "gc_runlock", "sc_lock", "sc_swap",
                           "sc_unlock", "sc_panic"}
              THEN Head(l.stack) ELSE l.pc
        nested == at # l.pc
    IN CASE at = "occ_clone" -> IF nested THEN 0 ELSE 1
         [] at = "occ_load" -> 2
         [] at \in {"edu_get", "edu_create", "edu_update", "edu_teams",
                    "occ_bot", "edc_teams", "edc_get", "edc_create"} -> 3
         [] at \in {"diff_compare", "diff_teams", "diff_notify"} -> 4
         [] at = "occ_ret" -> IF nested THEN 5 ELSE 6
         [] OTHER -> 7

\* C16: a reload goes through its steps in order, one after the other, and
\* leaves the order only by returning an error; the clone gets the settings
\* in step 2 and the ensured ids in step 3, the host's users and channels and
\* the bot id change in step 3 only, notifications are posted in step 4 only,
\* before this reload called setConfiguration and while the configuration it
\* started from is still the published one; the pointer is stored in step 5
\* only, and a reload that returns nil has called setConfiguration once.
C16_ReloadStepsInOrder ==
    [][\A p \in Procs :
         (loc[p].hook = "occ" /\ loc'[p].hook = "occ") =>
            LET a == Phase(loc[p])
                b == Phase(loc'[p])
                returns == loc[p].pc # "done" /\ loc'[p].pc = "done"
            IN /\ \/ b = a
                  \/ b = a + 1
                  \/ returns /\ loc'[p].res = "err"
               /\ (returns /\ loc'[p].res = "err") => a < 5
               /\ loc'[p].newc # loc[p].newc => (a = 1 /\ b = 2)
               /\ (loc[p].newc # Nil /\ heap'[loc[p].newc] # heap[loc[p].newc])
                     => (a \in {2, 3} /\ loc[p].sets = 0)
               /\ (users' # users \/ channels' # channels \/ botID' # botID)
                     => (a = 3 /\ b \in {3, 7})
               /\ loc'[p].posts # loc[p].posts =>
                     /\ a = 4 /\ b \in {4, 5}
                     /\ loc[p].sets = 0
                     /\ loc[p].newc \notin everPublished
                     /\ configuration = loc[p].conf0
                     /\ configuration' = configuration
               /\ loc'[p].sets # loc[p].sets =>
                     /\ a = 5 /\ b = 5
                     /\ loc'[p].sets = 1
                     /\ configuration' = loc[p].newc
               /\ configuration' # configuration => loc'[p].sets # loc[p].sets
               /\ (returns /\ loc'[p].res = "nil") =>
                     (a = 6 /\ loc'[p].sets = 1)]_vars

\* A reload that returned nil after it had created a channel, posted a
\* notification about changed fields and replaced a published configuration.
C16_Witness ==
    \E p \in Procs :
       /\ Reloaded(p)
       /\ loc[p].sets = 1
       /\ loc[p].posts # <<>>
       /\ loc[p].created # {}
       /\ loc[p].conf0 \in everPublished
       /\ configuration = loc[p].newc

\* C17: once a host API call of a hook returned an error, the hook has
\* returned or has no step left but to return: a reload is back at the host
\* with the error, the job has no channel left to post to, the dialog
\* handler has answered.
C17_ApiErrorEndsOperation ==
    \A p \in Procs :
       (loc[p].failed \/ loc[p].apierr) =>
          \/ loc[p].pc = "done"
          \/ loc[p].hook = "job" /\ loc[p].keys = {}

\* The next step of p stores p.botID (the assignment after EnsureBot).
WritesBotID(p) == loc[p].pc = "occ_bot"

\* The next step of p loads p.botID for the UserId of a post.
ReadsBotID(p) ==
    \/ loc[p].pc = "bj_loop" /\ loc[p].keys # {}
    \/ loc[p].pc \in {"pm_post", "hd_root", "hd_tag"}
    \/ loc[p].pc = "diff_notify" /\ loc[p].idx <= Len(loc[p].tl)

\* C18: p.botID is never about to be written by one worker while another is
\* about to read it, unless both hold the configuration lock (the only lock
\* the plugin has).
C18_BotIDAccessesSynchronised ==
    \A p, q \in Procs :
       (p # q /\ WritesBotID(p) /\ ReadsBotID(q)) => (Holds(p) /\ Holds(q))

\* C19: the pointer changes only in setConfiguration's store, to an instance
\* that is not nil and was never published before, which thereby becomes the
\* latest of the published instances; a pointer that is not nil is a
\* published instance and never becomes nil again.
C19_PublishedNeverNilNeverReused ==
    [][/\ configuration # Nil => (configuration \in everPublished
                                     /\ configuration' # Nil)
       /\ configuration' # configuration =>
             /\ configuration' # Nil
             /\ configuration' \notin everPublished
             /\ everPublished' = everPublished \cup {configuration'}
             /\ \E p \in Procs : /\ loc[p].pc = "sc_swap"
                                 /\ loc[p].setarg = configuration'
                                 /\ loc'[p].pc = "sc_unlock"]_vars

\* Two instances were published, the second by the enable/disable command
\* or by a reload.
C19_Witness ==
    /\ Cardinality(everPublished) = 2
    /\ configuration \in everPublished
    /\ \E p \in Procs : loc[p].pc = "sc_unlock" /\ loc[p].conf0 \in everPublished

\* C20: ConfigurationWillBeSaved, called with plugin settings whose Username
\* is "invalid", returns an error, whatever the plugin's state.
C20_InvalidUsernameIsRejected ==
    \A p \in Procs :
       (/\ loc[p].hook = "save" /\ loc[p].pc = "done"
        /\ Settings(loc[p].arg).Username = "invalid"
        /\ loc[p].arg # "null")
          => loc[p].res = "err"

\* C21: every instance starts with disabled false; an instance's flag
\* becomes true only in the setEnabled(false) of a 'demo_plugin false'
\* command or in the Clone of an instance whose flag is true; a reload's
\* clone gets the flag of the snapshot it was cloned from, no later step of
\* the reload changes it, and setConfiguration publishes it as it is.
C21_EnabledUntilDisabled ==
    /\ \A i \in Ids : ~heap[i].disabled
    /\ [][/\ \A i \in Ids :
               (heap'[i].disabled /\ ~heap[i].disabled) =>
                  \E p \in Procs :
                     /\ loc'[p].newc = i /\ loc[p].newc # i
                     /\ \/ /\ loc[p].pc = "se_clone" /\ loc[p].hook = "cmd"
                           /\ loc[p].arg = "false"
                        \/ /\ loc[p].pc \in {"occ_clone", "se_clone"}
                           /\ heap[loc[p].snap].disabled
          /\ \A p \in Procs :
               (loc[p].hook = "occ" /\ loc'[p].hook = "occ") =>
                  /\ (loc[p].pc = "occ_clone" /\ loc'[p].pc = "occ_load") =>
                        heap'[loc'[p].newc].disabled = heap[loc[p].snap].disabled
                  /\ (loc[p].newc # Nil /\ loc'[p].newc = loc[p].newc) =>
                        heap'[loc[p].newc].disabled = heap[loc[p].newc].disabled
                  /\ (loc[p].pc = "sc_swap" /\ loc'[p].pc = "sc_unlock") =>
                        /\ configuration' = loc[p].newc
                        /\ pubValue'[loc[p].newc].c.disabled
                              = heap[loc[p].newc].disabled]_vars

\* A reload over a configuration that a 'demo_plugin false' command had
\* published kept the plugin disabled.
C21_Witness ==
    \E p \in Procs :
       /\ Reloaded(p)
       /\ configuration = loc[p].newc
       /\ pubValue[loc[p].newc].c.disabled
       /\ pubValue[loc[p].newc].c.Username = "demo"

\* The messages the plugin's hooks hand to postPluginMessage.
PluginMessages == {"OnActivate", "won't be saved", "replacing", "will be saved"}

\* C22: every post postPluginMessage creates goes to a channel of the
\* snapshot's mapping, never to the empty channel id.
C22_PostsGoToMappedChannels ==
    \A p \in Procs :
       \A i \in DOMAIN loc[p].posts :
          loc[p].posts[i].msg \in PluginMessages =>
             /\ loc[p].posts[i].ch # NoChannel
             /\ loc[p].posts[i].ch \in channels

\* q's command called setEnabled and returned.
Commanded(q) ==
    /\ loc[q].hook = "cmd" /\ loc[q].pc = "done"
    /\ loc[q].res \in {"enabled", "disabled"}

\* C23: when a reload and an enable/disable command have both completed,
\* the published configuration has the state the command set and the
\* settings and mapping the reload loaded.
C23_NoLostUpdate ==
    \A p, q \in Procs :
       (Reloaded(p) /\ Commanded(q) /\ configuration # Nil) =>
          LET v == pubValue[configuration]
          IN /\ v.c.disabled = ~loc[q].enabled
             /\ Overlay(v.c, Settings(loc[p].arg)) = v.c
             /\ DOMAIN v.m = loc[p].seen

\* C24: whenever a hook is inside setConfiguration, the instance it passed
\* is not nil, was never published and so is not the published one; the
\* panic branch is never entered and the process never dies of it.
C24_PanicUnreachable ==
    /\ ~panicked
    /\ \A p \in Procs :
          /\ loc[p].pc # "sc_panic"
          /\ loc[p].pc \in {"sc_lock", "sc_swap"} =>
                /\ loc[p].setarg # Nil
                /\ loc[p].setarg \notin everPublished
                /\ loc[p].setarg # configuration
                /\ ~SetPanics(configuration, loc[p].setarg)
                /\ \A q \in Procs \ {p} : loc[q].setarg # loc[p].setarg

\* A worker is about to store its clone over the configuration the other
\* worker's hook, which has not returned yet, published.
C24_Witness ==
    \E p, q \in Procs :
       /\ p # q
       /\ loc[p].pc = "sc_swap" /\ wwait = p /\ rlock = {}
       /\ configuration \in everPublished
       /\ loc[q].newc = configuration

\* The command of p asks for the state its snapshot already has.
Redundant(p) ==
    /\ loc[p].hook = "cmd" /\ loc[p].cfg # Nil
    /\ \/ loc[p].arg = "true" /\ ~heap[loc[p].cfg].disabled
       \/ loc[p].arg = "false" /\ heap[loc[p].cfg].disabled

\* C25: a 'true' command on an enabled snapshot, or 'false' on a disabled
\* one, has returned the already-enabled / already-disabled response right
\* after its one getConfiguration: it made no clone, called setConfiguration
\* not at all, published no status_change event, and the published instance
\* is the one it found.
C25_RedundantCommandIsNoOp ==
    \A p \in Procs :
       Redundant(p) =>
          /\ loc[p].pc = "done"
          /\ loc[p].res = (IF loc[p].arg = "true" THEN "already enabled"
                           ELSE "already disabled")
          /\ loc[p].gets = 1
          /\ loc[p].newc = Nil /\ loc[p].setarg = Nil
          /\ loc[p].sets = 0
          /\ loc[p].emitted = <<>>
          /\ configuration = loc[p].conf0

\* 'demo_plugin false' found the plugin disabled by an earlier command.
C25_Witness ==
    \E p \in Procs :
       /\ Redundant(p)
       /\ loc[p].arg = "false"
       /\ loc[p].cfg = configuration
       /\ configuration \in everPublished

\* What a reader of the configuration p's hook started from sees: the
\* zero value when nothing was published.
Before(p) ==
    IF loc[p].conf0 = Nil THEN ZeroFlat ELSE Flat(heap, maps, loc[p].conf0)

\* C26: a command that called setEnabled, with no other writer about, has
\* called setConfiguration once, with a new instance that is now published:
\* its disabled flag is the negation of the requested state, every other
\* field and the mapping equal those of the configuration the command found;
\* and it published one status_change event, carrying the requested state.
C26_CommandFlipsOnlyTheFlag ==
    \A p \in Procs :
       Commanded(p) =>
          LET v == pubValue[loc[p].newc]
              v0 == Before(p)
          IN /\ loc[p].sets = 1
             /\ loc[p].newc # Nil /\ loc[p].newc # loc[p].conf0
             /\ loc[p].newc \in everPublished
             /\ configuration = loc[p].newc
             /\ Flat(heap, maps, loc[p].newc) = v
             /\ loc[p].enabled = (loc[p].arg = "true")
             /\ loc[p].res = (IF loc[p].enabled THEN "enabled" ELSE "disabled")
             /\ v.c.disabled = ~loc[p].enabled
             /\ v0.c.disabled = loc[p].enabled
             /\ [Fields(v) EXCEPT !.disabled = FALSE]
                   = [Fields(v0) EXCEPT !.disabled = FALSE]
             /\ v.m = v0.m
             /\ loc[p].emitted = <<loc[p].enabled>>

\* 'demo_plugin false' disabled a plugin whose published configuration had a
\* demo user and a channel for a team.
C26_Witness ==
    \E p \in Procs :
       /\ Commanded(p) /\ loc[p].arg = "false"
       /\ loc[p].conf0 \in everPublished
       /\ pubValue[loc[p].newc].m # EmptyMap
       /\ pubValue[loc[p].newc].c.demoUserID # ""

\* C27: the diff map diffConfiguration built has an entry for exactly the
\* compared settings whose values differ between the published and the new
\* configuration, each with the new configuration's value of that setting
\* (random_secret as "<HIDDEN>"); with an empty diff nothing is posted.
C27_DiffHasNewValues ==
    \A p \in Procs :
       (loc[p].hook = "occ" /\ loc[p].old # Nil) =>
          LET n == heap[loc[p].newc]
              o == heap[loc[p].old]
              d == loc[p].diff
          IN /\ DOMAIN d = {k \in DiffKeys : n[DiffField(k)] # o[DiffField(k)]}
             /\ \A k \in DOMAIN d :
                   d[k] = IF k = "random_secret" THEN "<HIDDEN>"
                          ELSE n[DiffField(k)]
             /\ DOMAIN d = {} => loc[p].posts = <<>>

\* The values the RandomSecret setting takes.
Secrets == {SettingsA.RandomSecret, SettingsB.RandomSecret}

\* C28: what a reload that changes the secret sends to the channels (the
\* props of the posts, the uploaded file) is the same whatever the secret's
\* new value is.
C28_NotificationHidesSecret ==
    \A p \in Procs :
       (loc[p].hook = "occ" /\ loc[p].old # Nil) =>
          LET n == heap[loc[p].newc]
              o == heap[loc[p].old]
          IN /\ \A i \in DOMAIN loc[p].posts : loc[p].posts[i].props = loc[p].diff
             /\ \A i \in DOMAIN loc[p].uploads : loc[p].uploads[i].data = Marshal(n)
             /\ \A s \in Secrets :
                   (n.RandomSecret # o.RandomSecret /\ s # o.RandomSecret) =>
                      LET n2 == [n EXCEPT !.RandomSecret = s]
                      IN /\ ConfigurationDiff(n2, o) = ConfigurationDiff(n, o)
                         /\ (loc[p].uploads # <<>>) => Marshal(n2) = Marshal(n)

\* C29: a dialog command that has returned opened the dialog only if it
\* consists of the trigger alone; with one or more arguments it answered
\* 'Unknown command' and did not call OpenInteractiveDialog; a failed
\* OpenInteractiveDialog is answered with 'Failed to open Interactive Dialog'.
C29_DialogOnlyForBareTrigger ==
    \A p \in Procs :
       (loc[p].hook = "command" /\ loc[p].pc = "done"
          /\ loc[p].fields[1] = "dialog") =>
          IF Len(loc[p].fields) = 1
          THEN /\ loc[p].opened = 1
               /\ loc[p].res \in {"empty response",
                                  "Failed to open Interactive Dialog"}
          ELSE /\ loc[p].opened = 0
               /\ loc[p].res = "Unknown command"

====
